---- MODULE Spec2Model ----
(***************************************************************************)
(* The AnimationPlayer scene node of src/scene/animation/mod.rs and its    *)
(* builder, inside a scene graph.  The node owns an animation container    *)
(* wrapped in an InheritableVariable and an auto_apply flag; update()     *)
(* ticks the container through the silent accessor and lets it write the   *)
(* pose onto the graph's nodes when auto_apply is set.                     *)
(*                                                                         *)
(* The collaborators whose code lives outside mod.rs (InheritableVariable, *)
(* AnimationContainer::update_animations, the graph's node pool) are       *)
(* modelled from their documented contract.                                *)
(***************************************************************************)
EXTENDS Integers, Sequences, FiniteSets, TLC

\* ------------------------------------------------------------------ bounds
NumSlots == 3      \* records of the graph's node pool
MaxGen == 2        \* how often one pool record may be occupied
MaxTime == 3       \* cap on an animation's time position
MaxDt == 1         \* largest frame delta

VARIABLES
    pool,       \* Graph: the node pool, index -> [generation, payload]
    builder,    \* the AnimationPlayerBuilder under construction
    said,       \* history: the arguments of the latest with_* calls on builder
    hist,       \* history, per pool record: what its player has been told
    call        \* history: the last operation, its arguments and its result

vars == <<pool, builder, said, hist, call>>

\* ---------------------------------------------------------------- handles
Handle(i, g) == [index |-> i, generation |-> g]

Handles == [index : 1..NumSlots, generation : 1..MaxGen]

NoPayload == [kind |-> "None"]

\* Pool::is_valid_handle: the record is occupied and of the handle's generation.
is_valid_handle(nodes, h) ==
    /\ h.index \in DOMAIN nodes
    /\ nodes[h.index].generation = h.generation
    /\ nodes[h.index].payload.kind # "None"

\* -------------------------------------------------------------- animation
\* A curve has one key per unit of time, at t = 1 .. Len(curve); outside
\* the keys it holds the value of the nearest one.
CurveValue(curve, t) ==
    IF Len(curve) = 0 THEN 0
    ELSE IF t <= 1 THEN curve[1]
    ELSE IF t >= Len(curve) THEN curve[Len(curve)]
    ELSE curve[t]

Track(target, curve) == [target |-> target, curve |-> curve]

Animation(time, tracks) == [time_position |-> time, tracks |-> tracks]

\* AnimationContainer::new(): no animations.
AnimationContainer_new == <<>>

\* The bounce curve of the AnimationPlayer docs, keys 0.1 s apart, in quarters.
BounceCurve == <<4, 0, 3, 0, 1, 0>>

RampCurve == <<1, 2>>

Target1 == Handle(1, 1)
Target2 == Handle(2, 1)

OneAnimation == <<Animation(0, <<Track(Target1, BounceCurve)>>)>>

TwoAnimations ==
    <<Animation(0, <<Track(Target1, RampCurve)>>),
      Animation(1, <<Track(Target2, BounceCurve)>>)>>

\* The containers callers hand to with_animations / set_animations.
Containers == {AnimationContainer_new, OneAnimation, TwoAnimations}

\* Animation::tick: the clock advances by dt.
tick(animation, dt) ==
    [animation EXCEPT !.time_position = animation.time_position + dt]

\* apply_pose resolving a target by its index alone: a stale handle writes
\* into whatever node now occupies the record.
RECURSIVE apply_pose_any_generation(_, _, _)
apply_pose_any_generation(animation, i, nodes) ==
    IF i > Len(animation.tracks) THEN nodes
    ELSE LET tr == animation.tracks[i]
             written ==
                 IF nodes[tr.target.index].payload.kind # "None"
                 THEN [nodes EXCEPT ![tr.target.index].payload.position =
                                        CurveValue(tr.curve, animation.time_position)]
                 ELSE nodes
         IN  apply_pose_any_generation(animation, i + 1, written)

\* Pose::apply: every track writes its value at the animation's time to its
\* target node; a handle that does not resolve is skipped.
RECURSIVE apply_pose(_, _, _)
apply_pose(animation, i, nodes) ==
    IF i > Len(animation.tracks) THEN nodes
    ELSE LET tr == animation.tracks[i]
             written ==
                 IF is_valid_handle(nodes, tr.target)
                 THEN [nodes EXCEPT ![tr.target.index].payload.position =
                                        CurveValue(tr.curve, animation.time_position)]
                 ELSE nodes
         IN  apply_pose(animation, i + 1, written)

\* update_animations giving up at the first animation one of whose targets
\* does not resolve: that animation and the ones after it are left as they are.
RECURSIVE update_animations_bail(_, _, _, _, _)
update_animations_bail(container, i, nodes, apply, dt) ==
    IF i > Len(container) THEN [container |-> container, nodes |-> nodes]
    ELSE IF apply /\ \E t \in 1..Len(container[i].tracks) :
                        ~is_valid_handle(nodes, container[i].tracks[t].target)
    THEN [container |-> container, nodes |-> nodes]
    ELSE LET ticked == tick(container[i], dt)
             posed == IF apply THEN apply_pose(ticked, 1, nodes) ELSE nodes
         IN  update_animations_bail([container EXCEPT ![i] = ticked], i + 1, posed, apply, dt)

\* AnimationContainer::update_animations(nodes, apply, dt): every animation
\* is ticked by dt and, when apply is set, its pose is written to nodes.
\* Yields the container and the nodes after the call.
RECURSIVE update_animations(_, _, _, _, _)
update_animations(container, i, nodes, apply, dt) ==
    IF i > Len(container) THEN [container |-> container, nodes |-> nodes]
    ELSE LET ticked == tick(container[i], dt)
             posed == IF apply THEN apply_pose(ticked, 1, nodes) ELSE nodes
         IN  update_animations([container EXCEPT ![i] = ticked], i + 1, posed, apply, dt)

\* ---------------------------------------------------- InheritableVariable
\* InheritableVariable::new / From<T>: the value, not marked modified.
InheritableVariable_new(value) == [value |-> value, modified |-> FALSE]

set_value_and_mark_modified(variable, value) ==
    [value |-> value, modified |-> TRUE]

\* Writing through get_value_mut_silent: the value changes, the flag stays.
set_value_silent(variable, value) ==
    [variable EXCEPT !.value = value]

\* ------------------------------------------------------------------ nodes
\* BaseBuilder::build_base of a default BaseBuilder: a node at the origin.
build_base == 0

BaseNode(position) == [kind |-> "Base", position |-> position]

AnimationPlayer(base, animations, auto_apply) ==
    [kind |-> "AnimationPlayer", position |-> base,
     animations |-> animations, auto_apply |-> auto_apply]

\* impl Default for AnimationPlayer
AnimationPlayer_default ==
    AnimationPlayer(build_base, InheritableVariable_new(AnimationContainer_new), TRUE)

is_auto_apply(node) == node.auto_apply

animations(node) == node.animations

IsPlayer(nodes, h) ==
    is_valid_handle(nodes, h) /\ nodes[h.index].payload.kind = "AnimationPlayer"

LivePlayers == {h \in Handles : IsPlayer(pool, h)}

\* ---------------------------------------------------------------- builder
AnimationPlayerBuilder_new ==
    [state |-> "accumulating", animations |-> AnimationContainer_new, auto_apply |-> TRUE]

Consumed == [state |-> "finalized", animations |-> AnimationContainer_new, auto_apply |-> TRUE]

NothingSaid == [animations |-> <<>>, auto_apply |-> <<>>]

\* AnimationPlayerBuilder::build_node as a function of the builder.
BuiltNode(b) ==
    AnimationPlayer(build_base, InheritableVariable_new(b.animations), b.auto_apply)

\* Graph::add_node: the node goes into a vacant record, whose generation is
\* raised; yields the pool after the call.
SpawnAt(nodes, i, node) ==
    [nodes EXCEPT ![i] = [generation |-> nodes[i].generation + 1, payload |-> node]]

VacantSlots(nodes) ==
    {i \in DOMAIN nodes : nodes[i].payload.kind = "None" /\ nodes[i].generation < MaxGen}

\* ---------------------------------------------------------------- history
\* The last two arguments of a setter, oldest first.
Last2(seq, x) == IF Len(seq) = 0 THEN <<x>> ELSE <<seq[Len(seq)], x>>

Times(container) == [k \in 1..Len(container) |-> container[k].time_position]

\* start: the clocks of the container when it was handed to the node;
\* elapsed: the sum of the dt of the update calls since then;
\* authored: set_animations has been called on the node;
\* auto: the value auto_apply was constructed with or last set to.
NoHistory == [start |-> <<>>, elapsed |-> 0, authored |-> FALSE, auto |-> TRUE]

Constructed(b) ==
    [start |-> Times(b.animations), elapsed |-> 0, authored |-> FALSE,
     auto |-> b.auto_apply]

\* ------------------------------------------------------------------- Init
BasePool ==
    [i \in 1..NumSlots |->
        IF i <= 2 THEN [generation |-> 1, payload |-> BaseNode(0)]
        ELSE [generation |-> 0, payload |-> NoPayload]]

\* A graph of two plain nodes and a builder that has just been created.
BuilderInit ==
    /\ pool = BasePool
    /\ builder = AnimationPlayerBuilder_new
    /\ said = NothingSaid
    /\ hist = [i \in 1..NumSlots |-> NoHistory]
    /\ call = [op |-> "new"]

\* A graph of two plain nodes and one animation player, as build() of some
\* builder configuration leaves it.
Init ==
    \E c \in Containers, a \in BOOLEAN :
        LET b == [AnimationPlayerBuilder_new EXCEPT !.animations = c, !.auto_apply = a]
        IN  /\ pool = SpawnAt(BasePool, 3, BuiltNode(b))
            /\ builder = Consumed
            /\ said = NothingSaid
            /\ hist = [i \in 1..NumSlots |-> IF i = 3 THEN Constructed(b) ELSE NoHistory]
            /\ call = [op |-> "build", ret |-> Handle(3, 1)]

\* ---------------------------------------------------------------- actions
new ==
    /\ builder.state = "finalized"
    /\ builder' = AnimationPlayerBuilder_new
    /\ said' = NothingSaid
    /\ call' = [op |-> "new"]
    /\ UNCHANGED <<pool, hist>>

with_animations(c) ==
    /\ builder.state = "accumulating"
    /\ builder' = [builder EXCEPT !.animations = c]
    /\ said' = [said EXCEPT !.animations = Last2(@, c)]
    /\ call' = [op |-> "with_animations", arg |-> c]
    /\ UNCHANGED <<pool, hist>>

\* with_auto_apply that can only switch the flag on.
with_auto_apply_sticky(b) ==
    /\ builder.state = "accumulating"
    /\ builder' = [builder EXCEPT !.auto_apply = @ \/ b]
    /\ said' = [said EXCEPT !.auto_apply = Last2(@, b)]
    /\ call' = [op |-> "with_auto_apply", arg |-> b]
    /\ UNCHANGED <<pool, hist>>

with_auto_apply(b) ==
    /\ builder.state = "accumulating"
    /\ builder' = [builder EXCEPT !.auto_apply = b]
    /\ said' = [said EXCEPT !.auto_apply = Last2(@, b)]
    /\ call' = [op |-> "with_auto_apply", arg |-> b]
    /\ UNCHANGED <<pool, hist>>

build_node ==
    /\ builder.state = "accumulating"
    /\ builder' = Consumed
    /\ call' = [op |-> "build_node", ret |-> BuiltNode(builder)]
    /\ UNCHANGED <<pool, said, hist>>

\* build adding a default AnimationPlayer instead of the configured one.
build_default ==
    /\ builder.state = "accumulating"
    /\ \E i \in VacantSlots(pool) :
          /\ pool' = SpawnAt(pool, i, AnimationPlayer_default)
          /\ hist' = [hist EXCEPT ![i] = Constructed(builder)]
          /\ call' = [op |-> "build", ret |-> Handle(i, pool[i].generation + 1)]
    /\ builder' = Consumed
    /\ UNCHANGED said

build ==
    /\ builder.state = "accumulating"
    /\ \E i \in VacantSlots(pool) :
          /\ pool' = SpawnAt(pool, i, BuiltNode(builder))
          /\ hist' = [hist EXCEPT ![i] = Constructed(builder)]
          /\ call' = [op |-> "build", ret |-> Handle(i, pool[i].generation + 1)]
    /\ builder' = Consumed
    /\ UNCHANGED said

\* set_auto_apply flipping the flag whatever its argument.
set_auto_apply_toggle(h, b) ==
    /\ IsPlayer(pool, h)
    /\ pool' = [pool EXCEPT ![h.index].payload.auto_apply = ~@]
    /\ hist' = [hist EXCEPT ![h.index].auto = b]
    /\ call' = [op |-> "set_auto_apply", h |-> h, arg |-> b]
    /\ UNCHANGED <<builder, said>>

set_auto_apply(h, b) ==
    /\ IsPlayer(pool, h)
    /\ pool' = [pool EXCEPT ![h.index].payload.auto_apply = b]
    /\ hist' = [hist EXCEPT ![h.index].auto = b]
    /\ call' = [op |-> "set_auto_apply", h |-> h, arg |-> b]
    /\ UNCHANGED <<builder, said>>

\* set_animations writing through the silent accessor.
set_animations_silent(h, c) ==
    /\ IsPlayer(pool, h)
    /\ pool' = [pool EXCEPT ![h.index].payload.animations = set_value_silent(@, c)]
    /\ hist' = [hist EXCEPT ![h.index].start = Times(c),
                            ![h.index].elapsed = 0,
                            ![h.index].authored = TRUE]
    /\ call' = [op |-> "set_animations", h |-> h, arg |-> c]
    /\ UNCHANGED <<builder, said>>

set_animations(h, c) ==
    /\ IsPlayer(pool, h)
    /\ pool' = [pool EXCEPT ![h.index].payload.animations =
                   set_value_and_mark_modified(@, c)]
    /\ hist' = [hist EXCEPT ![h.index].start = Times(c),
                            ![h.index].elapsed = 0,
                            ![h.index].authored = TRUE]
    /\ call' = [op |-> "set_animations", h |-> h, arg |-> c]
    /\ UNCHANGED <<builder, said>>

\* The model's cap on the clocks: an update that would take a clock, or the
\* sum of the dts, out of range is not taken.
InTime(h, dt) ==
    /\ \A k \in 1..Len(pool[h.index].payload.animations.value) :
          pool[h.index].payload.animations.value[k].time_position + dt \in 0..MaxTime
    /\ hist[h.index].elapsed + dt \in -MaxTime..MaxTime

\* The frame of an update call: what it records, and what it cannot touch.
Updated(h, dt) ==
    /\ hist' = [hist EXCEPT ![h.index].elapsed = @ + dt]
    /\ call' = [op |-> "update", h |-> h, dt |-> dt]
    /\ UNCHANGED <<builder, said>>

\* update writing the ticked container back through the marking setter.
update_marking(h, dt) ==
    /\ IsPlayer(pool, h)
    /\ InTime(h, dt)
    /\ LET self == pool[h.index].payload
           r == update_animations(self.animations.value, 1, pool, self.auto_apply, dt)
       IN  pool' = [r.nodes EXCEPT ![h.index].payload.animations =
                       set_value_and_mark_modified(@, r.container)]
    /\ Updated(h, dt)

\* update asking for the pose to be applied whatever auto_apply says.
update_always_apply(h, dt) ==
    /\ IsPlayer(pool, h)
    /\ InTime(h, dt)
    /\ LET self == pool[h.index].payload
           r == update_animations(self.animations.value, 1, pool, TRUE, dt)
       IN  pool' = [r.nodes EXCEPT ![h.index].payload.animations =
                       set_value_silent(@, r.container)]
    /\ Updated(h, dt)

\* update leaving the container alone while auto_apply is off.
update_only_when_applying(h, dt) ==
    /\ IsPlayer(pool, h)
    /\ InTime(h, dt)
    /\ LET self == pool[h.index].payload
           r == update_animations(self.animations.value, 1, pool, TRUE, dt)
       IN  pool' = IF self.auto_apply
                   THEN [r.nodes EXCEPT ![h.index].payload.animations =
                            set_value_silent(@, r.container)]
                   ELSE pool
    /\ Updated(h, dt)

update(h, dt) ==
    /\ IsPlayer(pool, h)
    /\ InTime(h, dt)
    /\ LET self == pool[h.index].payload
           r == update_animations(self.animations.value, 1, pool, self.auto_apply, dt)
       IN  pool' = [r.nodes EXCEPT ![h.index].payload.animations =
                       set_value_silent(@, r.container)]
    /\ Updated(h, dt)

\* Graph::add_node of a plain node.
add_node ==
    /\ \E i \in VacantSlots(pool) :
          /\ pool' = SpawnAt(pool, i, BaseNode(build_base))
          /\ call' = [op |-> "add_node", ret |-> Handle(i, pool[i].generation + 1)]
    /\ UNCHANGED <<builder, said, hist>>

\* Graph::remove_node: the record is vacated; its generation stays, so the
\* handles to the removed node no longer resolve.
remove_node(h) ==
    /\ is_valid_handle(pool, h)
    /\ pool' = [pool EXCEPT ![h.index].payload = NoPayload]
    /\ hist' = [hist EXCEPT ![h.index] = NoHistory]
    /\ call' = [op |-> "remove_node", h |-> h]
    /\ UNCHANGED <<builder, said>>

\* The life of an animation player in its graph.
Next ==
    \/ \E h \in Handles, b \in BOOLEAN : set_auto_apply(h, b)
    \/ \E h \in Handles, c \in Containers : set_animations(h, c)
    \/ \E h \in Handles, dt \in -1..MaxDt : update(h, dt)
    \/ add_node
    \/ \E h \in Handles : remove_node(h)

Spec == Init /\ [][Next]_vars

\* The use of the builder, in a graph whose plain nodes come to be removed.
BuilderNext ==
    \/ new
    \/ \E c \in Containers : with_animations(c)
    \/ \E b \in BOOLEAN : with_auto_apply(b)
    \/ build_node
    \/ build
    \/ \E h \in Handles : pool[h.index].payload.kind = "Base" /\ remove_node(h)

BuilderSpec == BuilderInit /\ [][BuilderNext]_vars

\* ------------------------------------------------------------- properties
Slots == 1..NumSlots

Value(nodes, i) == animations(nodes[i].payload).value

\* Handle (i, generation of record i) is the target of some track.
Referenced(container, nodes, i) ==
    \E k \in 1..Len(container) : \E t \in 1..Len(container[k].tracks) :
        container[k].tracks[t].target = Handle(i, nodes[i].generation)

\* Some track's target does not resolve.
Dangling(container, nodes) ==
    \E k \in 1..Len(container) : \E t \in 1..Len(container[k].tracks) :
        ~is_valid_handle(nodes, container[k].tracks[t].target)

\* Every clock of record i's container is dt further in nodes2 than in nodes1.
Advanced(nodes1, nodes2, i, dt) ==
    /\ Len(Value(nodes2, i)) = Len(Value(nodes1, i))
    /\ \A k \in 1..Len(Value(nodes1, i)) :
          Value(nodes2, i)[k] = tick(Value(nodes1, i)[k], dt)

\* Record i holds a live node whose position is the pose some track that
\* targets it has at its animation's clock, and that pose is not the origin.
Posed(container, nodes, i) ==
    /\ nodes[i].payload.kind # "None"
    /\ nodes[i].payload.position # build_base
    /\ \E k \in 1..Len(container) : \E t \in 1..Len(container[k].tracks) :
          /\ container[k].tracks[t].target = Handle(i, nodes[i].generation)
          /\ nodes[i].payload.position =
                CurveValue(container[k].tracks[t].curve, container[k].time_position)

\* C1: an update call leaves the modified flag of every player's animations
\* as it was, and a player that was never given set_animations is never
\* marked modified, however often it is updated.
C1_SilentWrite ==
    [][/\ call'.op = "update" =>
            \A i \in Slots : pool[i].payload.kind = "AnimationPlayer" =>
                /\ pool'[i].payload.kind = "AnimationPlayer"
                /\ animations(pool'[i].payload).modified = animations(pool[i].payload).modified
       /\ \A i \in Slots : pool'[i].payload.kind = "AnimationPlayer" =>
            (~hist'[i].authored => ~animations(pool'[i].payload).modified)]_vars

\* Two and more updates in, the never-authored player is still unmodified.
C1_Witness ==
    /\ call.op = "update"
    /\ IsPlayer(pool, call.h)
    /\ call.dt = 1
    /\ hist[call.h.index].elapsed = 2
    /\ Len(Value(pool, call.h.index)) > 0
    /\ ~animations(pool[call.h.index].payload).modified

\* C2: right after set_animations(C) the node's container is C and the slot
\* is marked modified, and once set_animations has been called on a node the
\* mark stays, whatever update calls follow.
C2_SetAnimationsMarks ==
    \A h \in LivePlayers :
        /\ hist[h.index].authored => animations(pool[h.index].payload).modified
        /\ (call.op = "set_animations" /\ call.h = h) =>
              /\ animations(pool[h.index].payload).value = call.arg
              /\ animations(pool[h.index].payload).modified

\* set_animations, then updates that moved the clock: still marked.
C2_Witness ==
    /\ call.op = "update"
    /\ IsPlayer(pool, call.h)
    /\ hist[call.h.index].authored
    /\ hist[call.h.index].elapsed = 2
    /\ Value(pool, call.h.index) # <<>>
    /\ animations(pool[call.h.index].payload).modified

\* C3: an update of a player whose auto_apply is off changes no record of
\* the graph but the player's own, and of that only the container, every
\* clock of which is further by the dt of the call.
C3_ManualLeavesGraph ==
    [][\A h \in Handles :
         (call'.op = "update" /\ call'.h = h /\ ~is_auto_apply(pool[h.index].payload)) =>
            /\ \A i \in Slots : i # h.index => pool'[i] = pool[i]
            /\ pool' = [pool EXCEPT ![h.index].payload.animations.value = Value(pool', h.index)]
            /\ Advanced(pool, pool', h.index, call'.dt)]_vars

\* The clock moved under auto_apply = FALSE while a live target is not at
\* the pose the container has for it.
C3_Witness ==
    /\ call.op = "update"
    /\ call.dt = 1
    /\ IsPlayer(pool, call.h)
    /\ ~is_auto_apply(pool[call.h.index].payload)
    /\ hist[call.h.index].elapsed = 2
    /\ \E k \in 1..Len(Value(pool, call.h.index)) :
          LET tr == Value(pool, call.h.index)[k].tracks[1]
          IN  /\ is_valid_handle(pool, tr.target)
              /\ pool[tr.target.index].payload.position #
                    CurveValue(tr.curve, Value(pool, call.h.index)[k].time_position)

\* C4: an update of a player whose auto_apply is on leaves every record no
\* track targets as it was (of the player's own record, all but the
\* container's value).
C4_OnlyTargetsWritten ==
    [][\A h \in Handles :
         (call'.op = "update" /\ call'.h = h /\ is_auto_apply(pool[h.index].payload)) =>
            \A i \in Slots : ~Referenced(Value(pool, h.index), pool, i) =>
                IF i = h.index
                THEN pool'[i] = [pool[i] EXCEPT !.payload.animations.value = Value(pool', i)]
                ELSE pool'[i] = pool[i]]_vars

\* A target carries its pose, beside a live node that no track targets and
\* a record that was taken again after a target was removed from it.
C4_Witness ==
    /\ call.op = "update"
    /\ IsPlayer(pool, call.h)
    /\ is_auto_apply(pool[call.h.index].payload)
    /\ \E i \in Slots : Posed(Value(pool, call.h.index), pool, i)
    /\ \E j \in Slots :
          /\ j # call.h.index
          /\ pool[j].payload.kind # "None"
          /\ pool[j].generation = 2
          /\ ~Referenced(Value(pool, call.h.index), pool, j)

\* C5: when some track's target does not resolve, an update with auto_apply
\* on still takes place: the record the dangling handle points at is left
\* as it is, so is every record but the player's own and the live targets,
\* and every clock is further by dt.
C5_DanglingSkipped ==
    [][\A h \in Handles :
         (/\ call'.op = "update" /\ call'.h = h
          /\ is_auto_apply(pool[h.index].payload)
          /\ Dangling(Value(pool, h.index), pool)) =>
            /\ \A k \in 1..Len(Value(pool, h.index)) :
                 \A t \in 1..Len(Value(pool, h.index)[k].tracks) :
                    LET tg == Value(pool, h.index)[k].tracks[t].target
                    IN  (~is_valid_handle(pool, tg) /\ tg.index # h.index) =>
                            pool'[tg.index] = pool[tg.index]
            /\ \A i \in Slots :
                 (i # h.index /\ ~Referenced(Value(pool, h.index), pool, i)) =>
                    pool'[i] = pool[i]
            /\ Advanced(pool, pool', h.index, call'.dt)]_vars

\* An update went through with the first animation's target gone while the
\* second animation's target took its pose.
C5_Witness ==
    /\ call.op = "update"
    /\ call.dt = 1
    /\ IsPlayer(pool, call.h)
    /\ is_auto_apply(pool[call.h.index].payload)
    /\ Len(Value(pool, call.h.index)) = 2
    /\ ~is_valid_handle(pool, Value(pool, call.h.index)[1].tracks[1].target)
    /\ Posed(Value(pool, call.h.index), pool, 2)
    /\ hist[call.h.index].elapsed = 2

\* C6: every clock of a player's container stands at the value it had when
\* the container was handed to the node plus the sum of the dt of the update
\* calls since, whatever auto_apply was during them.
C6_ClockIsSumOfDts ==
    \A h \in LivePlayers :
        /\ Len(Value(pool, h.index)) = Len(hist[h.index].start)
        /\ \A k \in 1..Len(Value(pool, h.index)) :
              Value(pool, h.index)[k].time_position =
                  hist[h.index].start[k] + hist[h.index].elapsed

\* Two updates of dt = 1 with auto_apply off: the clocks are 2 further.
C6_Witness ==
    /\ call.op = "update"
    /\ call.dt = 1
    /\ IsPlayer(pool, call.h)
    /\ ~is_auto_apply(pool[call.h.index].payload)
    /\ ~animations(pool[call.h.index].payload).modified
    /\ Len(Value(pool, call.h.index)) = 2
    /\ hist[call.h.index].elapsed = 2
    /\ Value(pool, call.h.index)[2].time_position = 3

\* C7, as claimed: an update with dt = 0 leaves the clocks, the modified
\* flag and every graph node as they were.
C7_ZeroDtIsNoOp ==
    [][(call'.op = "update" /\ call'.dt = 0) => pool' = pool]_vars

\* C7, amended: an update with dt = 0 leaves the player's own record (clocks,
\* modified flag, auto_apply) as it was; with auto_apply off it leaves the
\* whole graph as it was; with auto_apply on a record changes only by a live
\* target taking the pose a track has for it at the unchanged clock.
C7_ZeroDtKeepsClock ==
    [][\A h \in Handles :
         (call'.op = "update" /\ call'.h = h /\ call'.dt = 0) =>
            /\ pool'[h.index] = pool[h.index]
            /\ ~is_auto_apply(pool[h.index].payload) => pool' = pool
            /\ \A i \in Slots :
                  \/ pool'[i] = pool[i]
                  \/ \E k \in 1..Len(Value(pool, h.index)) :
                       \E t \in 1..Len(Value(pool, h.index)[k].tracks) :
                          LET tr == Value(pool, h.index)[k].tracks[t]
                          IN  /\ tr.target = Handle(i, pool[i].generation)
                              /\ is_valid_handle(pool, tr.target)
                              /\ pool'[i] = [pool[i] EXCEPT !.payload.position =
                                    CurveValue(tr.curve, Value(pool, h.index)[k].time_position)]]_vars

\* The first call on a fresh player is update with dt = 0 and auto_apply on,
\* and a target has left the origin for its pose.
C7_Witness ==
    /\ call.op = "update"
    /\ call.dt = 0
    /\ IsPlayer(pool, call.h)
    /\ is_auto_apply(pool[call.h.index].payload)
    /\ hist[call.h.index].elapsed = 0
    /\ \E i \in Slots : Posed(Value(pool, call.h.index), pool, i)

\* What the with_* calls so far ask for, the defaults where there was none.
SaidAnimations ==
    IF said.animations = <<>> THEN AnimationContainer_new
    ELSE said.animations[Len(said.animations)]

SaidAutoApply ==
    IF said.auto_apply = <<>> THEN TRUE
    ELSE said.auto_apply[Len(said.auto_apply)]

\* C8: the node build_node yields, and the node build puts into the graph,
\* has the container of the last with_animations call (an empty one if there
\* was none), not marked modified, and the auto_apply of the last
\* with_auto_apply call (TRUE if there was none).
C8_LastWriteWins ==
    /\ call.op = "build_node" =>
          call.ret = AnimationPlayer(build_base,
                         [value |-> SaidAnimations, modified |-> FALSE], SaidAutoApply)
    /\ call.op = "build" =>
          pool[call.ret.index].payload =
              AnimationPlayer(build_base,
                  [value |-> SaidAnimations, modified |-> FALSE], SaidAutoApply)

\* Both settings were overwritten before build_node, and the later ones won.
C8_Witness ==
    /\ call.op = "build_node"
    /\ said.auto_apply = <<TRUE, FALSE>>
    /\ said.animations = <<TwoAnimations, OneAnimation>>
    /\ ~is_auto_apply(call.ret)
    /\ animations(call.ret).value = OneAnimation

\* C9: the graph changes in a step of the builder only if the step is build;
\* build fills one vacant record with the node build_node would yield,
\* leaves the other records as they were and returns a handle that resolves
\* to the new node.
C9_OnlyBuildTouchesGraph ==
    [][/\ call'.op \in {"new", "with_animations", "with_auto_apply", "build_node"} =>
            pool' = pool
       /\ call'.op = "build" =>
            /\ pool[call'.ret.index].payload.kind = "None"
            /\ is_valid_handle(pool', call'.ret)
            /\ pool'[call'.ret.index].payload = BuiltNode(builder)
            /\ \A j \in Slots : j # call'.ret.index => pool'[j] = pool[j]]_vars

\* build has put a configured player into a record a removed node had left,
\* beside a plain node and a player built before.
C9_Witness ==
    /\ call.op = "build"
    /\ call.ret = Handle(1, 2)
    /\ IsPlayer(pool, call.ret)
    /\ Value(pool, call.ret.index) = TwoAnimations
    /\ ~is_auto_apply(pool[call.ret.index].payload)
    /\ pool[2].payload = BaseNode(0)
    /\ IsPlayer(pool, Handle(3, 1))
    /\ Value(pool, 3) = OneAnimation

\* C10: a player's auto_apply is the value it was constructed with or the
\* argument of the last set_auto_apply call; set_auto_apply changes nothing
\* else in the graph, and update and set_animations leave auto_apply alone.
C10_AutoApplyFrame ==
    [][/\ \A i \in Slots : pool'[i].payload.kind = "AnimationPlayer" =>
            is_auto_apply(pool'[i].payload) = hist'[i].auto
       /\ \A h \in Handles : (call'.op = "set_auto_apply" /\ call'.h = h) =>
            /\ is_auto_apply(pool'[h.index].payload) = call'.arg
            /\ pool' = [pool EXCEPT ![h.index].payload.auto_apply = call'.arg]
       /\ call'.op \in {"update", "set_animations"} =>
            \A i \in Slots : pool[i].payload.kind = "AnimationPlayer" =>
                is_auto_apply(pool'[i].payload) = is_auto_apply(pool[i].payload)]_vars

\* auto_apply was switched off on a player that had been given a container
\* and updated; container and flag are as they were.
C10_Witness ==
    /\ call.op = "set_auto_apply"
    /\ call.arg = FALSE
    /\ IsPlayer(pool, call.h)
    /\ ~is_auto_apply(pool[call.h.index].payload)
    /\ hist[call.h.index].authored
    /\ hist[call.h.index].elapsed = 1
    /\ animations(pool[call.h.index].payload).modified

====
